---- MODULE Spec2Model ----
(***************************************************************************)
(* The polling pipeline of the App component (src/components/Leaderboard.  *)
(* tsx, lines 79-247): the interval timer, the asynchronous fetchData     *)
(* runs with the closures they capture, the React state they write, the   *)
(* previousClansMap ref, and the effect that re-runs when fetchData       *)
(* changes identity.                                                      *)
(*                                                                         *)
(* Strings that the code inspects (failure messages) are sequences of     *)
(* one-character strings, so that toLowerCase and includes are computed.  *)
(***************************************************************************)
EXTENDS Integers, Sequences, FiniteSets, TLC

(* ------------------------------ bounds -------------------------------- *)
\* Pipeline runs started in one behaviour (mount, effect re-runs and ticks).
MaxRuns == 3
\* Length of the array the extraction service returns.
MaxLen == 2
\* Length of the record sequences the pure pipeline stages are applied to.
MaxPureLen == 3

ClanNames == {"A", "B"}
PureNames == {"A", "B", "C"}
Scores == {0, 1}
Times == {1}

(* ------------------------------ strings ------------------------------- *)
UpperCase == <<"A","B","C","D","E","F","G","H","I","J","K","L","M",
               "N","O","P","Q","R","S","T","U","V","W","X","Y","Z">>
LowerCase == <<"a","b","c","d","e","f","g","h","i","j","k","l","m",
               "n","o","p","q","r","s","t","u","v","w","x","y","z">>

\* The lower-case letter of each upper-case letter.
LowerOf ==
    [c \in { UpperCase[k] : k \in 1..26 } |->
        LowerCase[CHOOSE k \in 1..26 : UpperCase[k] = c]]

\* String.prototype.toLowerCase, character by character.
ToLowerCase(s) ==
    [i \in 1..Len(s) |-> IF s[i] \in DOMAIN LowerOf THEN LowerOf[s[i]] ELSE s[i]]

\* String.prototype.includes: sub occurs in s at some offset.
Includes(s, sub) ==
    \E off \in 0..(Len(s) - Len(sub)) :
        \A j \in 1..Len(sub) : s[off + j] = sub[j]

Digits == <<"0","1","2","3","4","5","6","7","8","9">>

RECURSIVE NumberToString(_)
\* The decimal text a template literal gives a non-negative integer.
NumberToString(n) ==
    IF n < 10 THEN <<Digits[n + 1]>>
    ELSE NumberToString(n \div 10) \o <<Digits[(n % 10) + 1]>>

\* The substrings the catch branch looks for (lines 192 and 195).
QuotaSubstring ==
    <<"q","u","o","t","a">>
ApiKeySubstring ==
    <<"a","p","i"," ","k","e","y"," ","n","o","t"," ","v","a","l","i","d">>
\* errorMessage of a thrown value that is not an Error (line 189).
UnknownErrorText ==
    <<"A","n"," ","u","n","k","n","o","w","n"," ","e","r","r","o","r"," ","o","c","c",
      "u","r","r","e","d">>
\* Messages of the Errors fetchData throws itself (lines 116 and 154).
NotOkPrefix ==
    <<"N","e","t","w","o","r","k"," ","r","e","s","p","o","n","s","e"," ","w","a","s",
      " ","n","o","t"," ","o","k","."," ","S","t","a","t","u","s",":"," ">>
EmptyResponseText ==
    <<"A","I"," ","m","o","d","e","l"," ","r","e","t","u","r","n","e","d"," ","a","n",
      " ","e","m","p","t","y"," ","r","e","s","p","o","n","s","e",".">>
\* Messages of the errors the engine throws in JSON.parse and for-of (lines 157, 161).
SyntaxErrorText ==
    <<"U","n","e","x","p","e","c","t","e","d"," ","e","n","d"," ","o","f"," ","J","S",
      "O","N"," ","i","n","p","u","t">>
NotIterableText ==
    <<"n","e","w","C","l","a","n","s","D","a","t","a"," ","i","s"," ","n","o","t"," ",
      "i","t","e","r","a","b","l","e">>
\* Messages the awaited services reject with.
FailedToFetchText ==
    <<"F","a","i","l","e","d"," ","t","o"," ","f","e","t","c","h">>
QuotaRejectText ==
    <<"Q","u","o","t","a"," ","e","x","c","e","e","d","e","d">>
KeyRejectText ==
    <<"A","P","I"," ","k","e","y"," ","n","o","t"," ","v","a","l","i","d">>
BothRejectText ==
    <<"A","P","I"," ","K","e","y"," ","N","o","t"," ","V","a","l","i","d",":"," ","Q",
      "U","O","T","A">>

(* ------------------------------- values ------------------------------- *)
\* A value a try block can throw: an Error with a message, or anything else.
ErrorValue(msg) == [isError |-> TRUE, message |-> msg]
NonErrorValue(payload) == [isError |-> FALSE, message |-> payload]
NothingThrown == [isError |-> FALSE, message |-> <<>>]

\* HTTP statuses for which response.ok is false.
NotOkStatuses == {500}

\* What fetch or response.text() rejects with: a network failure.
FetchRejections == { ErrorValue(FailedToFetchText) }

\* What generateContent rejects with: the service's quota and credential
\* errors.
ExtractRejections == { ErrorValue(QuotaRejectText), ErrorValue(KeyRejectText) }

\* The error state, string | null.  A string is the literal part of the
\* template followed by the interpolated message.
NULL == [null |-> TRUE, literal |-> "", message |-> <<>>]
QuotaErrorText ==
    [null |-> FALSE,
     literal |-> "Daily Gemini API quota exceeded. Live updates have been paused. Please check back tomorrow.",
     message |-> <<>>]
ApiKeyErrorText ==
    [null |-> FALSE,
     literal |-> "Failed to process data: The Gemini API key is missing or invalid. Please ensure it is configured correctly.",
     message |-> <<>>]
GenericErrorText(errorMessage) ==
    [null |-> FALSE, literal |-> "Failed to process data with AI: ",
     message |-> errorMessage]

\* JavaScript truthiness of a string | null.
Truthy(e) == ~e.null /\ (e.literal # "" \/ e.message # <<>>)

\* Clan and TrackedClan records (../types).
Clan(n, s) == [name |-> n, score |-> s]
TrackedClan(c, d) == [name |-> c.name, score |-> c.score, pointChange |-> d]

SeqsUpTo(S, n) == UNION { [1..k -> S] : k \in 0..n }
Clans == { Clan(n, s) : n \in ClanNames, s \in Scores }

\* modelResponse.text: nothing, text JSON.parse rejects, JSON that is not an
\* array, or a JSON array of clans.
ModelTexts ==
    { [kind |-> k, data |-> <<>>] : k \in {"empty", "malformed", "nonarray"} }
    \cup { [kind |-> "array", data |-> d] : d \in SeqsUpTo(Clans, MaxLen) }

(* --------------------------- pipeline stages -------------------------- *)
RECURSIVE UniqueFrom(_, _)
UniqueFrom(data, acc) ==
    IF data = <<>> THEN acc
    ELSE UniqueFrom(Tail(data),
                    IF \E i \in 1..Len(acc) : acc[i].name = Head(data).name
                    THEN acc
                    ELSE Append(acc, Head(data)))

RECURSIVE OverwriteFrom(_, _)
OverwriteFrom(data, acc) ==
    IF data = <<>> THEN acc
    ELSE OverwriteFrom(Tail(data),
                       IF \E i \in 1..Len(acc) : acc[i].name = Head(data).name
                       THEN [i \in 1..Len(acc) |->
                               IF acc[i].name = Head(data).name
                               THEN Head(data) ELSE acc[i]]
                       ELSE Append(acc, Head(data)))

\* uniqueClans as it would be if every clan were set without the has test:
\* a repeated name keeps its position and takes the later record.
UniqueClansLastWins(newClansData) == OverwriteFrom(newClansData, <<>>)

\* uniqueClans as it would be without the de-duplication loop.
UniqueClansKeepingAll(newClansData) == newClansData

\* uniqueClans: the values of uniqueClansMap in insertion order.
UniqueClans(newClansData) == UniqueFrom(newClansData, <<>>)

\* new Map(uniqueClans.map(c => [c.name, c])); a later pair replaces an
\* earlier one with the same key.
MapOf(cs) ==
    [n \in { cs[i].name : i \in 1..Len(cs) } |->
        cs[CHOOSE i \in 1..Len(cs) :
              /\ cs[i].name = n
              /\ \A j \in (i + 1)..Len(cs) : cs[j].name # n]]

\* trackedClans as it would be if the test of line 172 were on the previous
\* score instead of the previous record.
TrackedClansTestingScore(uniqueClans, previous) ==
    [i \in 1..Len(uniqueClans) |->
        LET clan == uniqueClans[i] IN
        TrackedClan(clan,
                    IF clan.name \in DOMAIN previous /\ previous[clan.name].score # 0
                    THEN clan.score - previous[clan.name].score
                    ELSE 0)]

\* trackedClans: each clan with its change against the reference map.
TrackedClans(uniqueClans, previous) ==
    [i \in 1..Len(uniqueClans) |->
        LET clan == uniqueClans[i] IN
        TrackedClan(clan,
                    IF clan.name \in DOMAIN previous
                    THEN clan.score - previous[clan.name].score
                    ELSE 0)]

RECURSIVE InsertBeforeTies(_, _)
\* InsertByScore as it would be if the sort put a record before its ties.
InsertBeforeTies(sorted, x) ==
    IF sorted = <<>> THEN <<x>>
    ELSE IF Head(sorted).score - x.score <= 0
         THEN <<x>> \o sorted
         ELSE <<Head(sorted)>> \o InsertBeforeTies(Tail(sorted), x)

RECURSIVE InsertByScore(_, _)
\* One insertion of the stable sort: x goes after every record the
\* comparator does not order behind it.
InsertByScore(sorted, x) ==
    IF sorted = <<>> THEN <<x>>
    ELSE IF Head(sorted).score - x.score < 0
         THEN <<x>> \o sorted
         ELSE <<Head(sorted)>> \o InsertByScore(Tail(sorted), x)

RECURSIVE SortFrom(_, _)
SortFrom(rest, sorted) ==
    IF rest = <<>> THEN sorted
    ELSE SortFrom(Tail(rest), InsertByScore(sorted, Head(rest)))

\* Array.prototype.sort with (a, b) => b.score - a.score: stable, descending.
SortByScore(tracked) == SortFrom(tracked, <<>>)

\* CatchResult as it would be if the credential test came first.
CatchResultKeyFirst(e) ==
    LET errorMessage == IF e.isError THEN e.message ELSE UnknownErrorText
        lowerCaseError == ToLowerCase(errorMessage)
    IN  IF Includes(lowerCaseError, ApiKeySubstring)
        THEN [error |-> ApiKeyErrorText, stop |-> TRUE]
        ELSE IF Includes(lowerCaseError, QuotaSubstring)
        THEN [error |-> QuotaErrorText, stop |-> TRUE]
        ELSE [error |-> GenericErrorText(errorMessage), stop |-> FALSE]

\* CatchResult as it would be if every branch called stopPolling.
CatchResultAlwaysStops(e) ==
    LET errorMessage == IF e.isError THEN e.message ELSE UnknownErrorText
        lowerCaseError == ToLowerCase(errorMessage)
    IN  IF Includes(lowerCaseError, QuotaSubstring)
        THEN [error |-> QuotaErrorText, stop |-> TRUE]
        ELSE IF Includes(lowerCaseError, ApiKeySubstring)
        THEN [error |-> ApiKeyErrorText, stop |-> TRUE]
        ELSE [error |-> GenericErrorText(errorMessage), stop |-> TRUE]

\* The catch branch's decision: the message it shows and whether it calls
\* stopPolling.
CatchResult(e) ==
    LET errorMessage == IF e.isError THEN e.message ELSE UnknownErrorText
        lowerCaseError == ToLowerCase(errorMessage)
    IN  IF Includes(lowerCaseError, QuotaSubstring)
        THEN [error |-> QuotaErrorText, stop |-> TRUE]
        ELSE IF Includes(lowerCaseError, ApiKeySubstring)
        THEN [error |-> ApiKeyErrorText, stop |-> TRUE]
        ELSE [error |-> GenericErrorText(errorMessage), stop |-> FALSE]

(* -------------------------------- state ------------------------------- *)
VARIABLES
    mounted,           \* the component is mounted
    clans,             \* useState: the published Snapshot
    loading,           \* useState: the in-progress flag
    error,             \* useState: the error message or NULL
    lastUpdated,       \* useState: 0 for null, else a clock reading
    previousClansMap,  \* useRef: name -> Clan of the last publication
    intervalRef,       \* useRef: 0 for null, else a timer id
    timers,            \* live interval timers, each with the fetchData it calls
    timerSeq,          \* timer ids handed out by setInterval so far
    effectRan,         \* the polling effect has run at least once
    fetchDataError,    \* the error captured by the fetchData the effect last used
    runs,              \* pipeline runs in start order: position and fetchData
    last,              \* the step taken last
    stopped,           \* a catch block has taken a branch that calls stopPolling
    published,         \* the run whose setClans gave the published Snapshot, and
                       \* the length of the array that run parsed
    pStage, pIn, pOut  \* a pure stage applied to a bounded input

vars == <<mounted, clans, loading, error, lastUpdated, previousClansMap,
          intervalRef, timers, timerSeq, effectRan, fetchDataError, runs, last,
          stopped, published, pStage, pIn, pOut>>

appVars == <<mounted, clans, loading, error, lastUpdated, previousClansMap,
             intervalRef, timers, timerSeq, effectRan, fetchDataError, runs, last,
             stopped, published>>
pureVars == <<pStage, pIn, pOut>>

Step(op, thrown) == [op |-> op, thrown |-> thrown]

AppInit ==
    /\ mounted = TRUE
    /\ clans = <<>>
    /\ loading = TRUE
    /\ error = NULL
    /\ lastUpdated = 0
    /\ previousClansMap = MapOf(<<>>)
    /\ intervalRef = 0
    /\ timers = {}
    /\ timerSeq = 0
    /\ effectRan = FALSE
    /\ fetchDataError = NULL
    /\ runs = <<>>
    /\ last = Step("render", NothingThrown)
    /\ stopped = FALSE
    /\ published = [run |-> 0, size |-> 0]

Init ==
    /\ AppInit
    /\ pStage = "off" /\ pIn = <<>> /\ pOut = <<>>

\* A state setter of an unmounted component changes nothing.
SetState(current, value) == IF mounted THEN value ELSE current

\* The timers left once stopPolling has run.
TimersAfterStop == { t \in timers : t.id # intervalRef }

\* stopPolling (lines 102-107).
StopPolling ==
    /\ timers' = TimersAfterStop
    /\ intervalRef' = 0

\* A fetchData created in a render whose error was e.  The callback reads
\* the error it captured in one place, the test of line 180, so it is
\* identified by that truth value.
FetchData(e) == [error |-> Truthy(e)]

\* fetchData up to its first await: setLoading(true), then the fetch is
\* awaited.  f is the fetchData that is called.
StartRun(f) ==
    /\ runs' = Append(runs, [pc |-> "fetch", error |-> f.error])
    /\ loading' = SetState(loading, TRUE)

InFlight(r) == r \in 1..Len(runs) /\ runs[r].pc # "done"
Finished(r) == [runs EXCEPT ![r] = [pc |-> "done", error |-> FALSE]]

\* What App renders in the content box (lines 231-237).
View ==
    IF loading /\ Len(clans) = 0 THEN "LoadingSpinner"
    ELSE IF Truthy(error) THEN "ErrorDisplay"
    ELSE "Leaderboard"

(* ------------------------------- actions ------------------------------ *)
\* Effect as it would be if the effect returned no cleanup to run before it
\* runs again.
EffectWithoutCleanup ==
    /\ mounted
    /\ ~effectRan \/ error # fetchDataError
    /\ Len(runs) < MaxRuns
    /\ StartRun(FetchData(error))
    /\ timers' = timers \cup {[id |-> timerSeq + 1, fetchData |-> FetchData(error)]}
    /\ intervalRef' = timerSeq + 1
    /\ timerSeq' = timerSeq + 1
    /\ effectRan' = TRUE
    /\ fetchDataError' = error
    /\ last' = Step(IF effectRan THEN "effect" ELSE "mount", NothingThrown)
    /\ UNCHANGED <<mounted, clans, error, lastUpdated, previousClansMap, stopped>>
    /\ UNCHANGED published
    /\ UNCHANGED pureVars

\* The polling effect (lines 206-211).  It runs once after the first render
\* and again, its cleanup first, after a render in which fetchData has changed
\* identity, that is in which error differs from the error the previous
\* fetchData was created with (deps [stopPolling, error], line 204).
Effect ==
    /\ mounted
    /\ ~effectRan \/ error # fetchDataError
    /\ Len(runs) < MaxRuns
    /\ StartRun(FetchData(error))
    /\ timers' = (IF effectRan THEN TimersAfterStop ELSE timers)
                    \cup {[id |-> timerSeq + 1, fetchData |-> FetchData(error)]}
    /\ intervalRef' = timerSeq + 1
    /\ timerSeq' = timerSeq + 1
    /\ effectRan' = TRUE
    /\ fetchDataError' = error
    /\ last' = Step(IF effectRan THEN "effect" ELSE "mount", NothingThrown)
    /\ UNCHANGED <<mounted, clans, error, lastUpdated, previousClansMap, stopped>>
    /\ UNCHANGED published
    /\ UNCHANGED pureVars

\* Tick as it would be if fetchData returned at once while a run is in flight.
TickSkippingIfRunning(t) ==
    /\ t \in timers
    /\ Len(runs) < MaxRuns
    /\ \A r \in 1..Len(runs) : ~InFlight(r)
    /\ StartRun(t.fetchData)
    /\ last' = Step("tick", NothingThrown)
    /\ UNCHANGED <<mounted, clans, error, lastUpdated, previousClansMap,
                   intervalRef, timers, timerSeq, effectRan, fetchDataError, stopped>>
    /\ UNCHANGED published
    /\ UNCHANGED pureVars

\* A live interval timer fires and calls the fetchData it was created with.
Tick(t) ==
    /\ t \in timers
    /\ Len(runs) < MaxRuns
    /\ StartRun(t.fetchData)
    /\ last' = Step("tick", NothingThrown)
    /\ UNCHANGED <<mounted, clans, error, lastUpdated, previousClansMap,
                   intervalRef, timers, timerSeq, effectRan, fetchDataError, stopped>>
    /\ UNCHANGED published
    /\ UNCHANGED pureVars

\* The run moves on to its next await.
Advance(r, pc) ==
    /\ runs' = [runs EXCEPT ![r].pc = pc]
    /\ last' = Step("await", NothingThrown)
    /\ UNCHANGED <<mounted, clans, loading, error, lastUpdated, previousClansMap,
                   intervalRef, timers, timerSeq, effectRan, fetchDataError, stopped>>
    /\ UNCHANGED published
    /\ UNCHANGED pureVars

\* Catch as it would be without the finally block.
CatchWithoutFinally(r, e) ==
    LET result == CatchResult(e) IN
    /\ error' = SetState(error, result.error)
    /\ IF result.stop THEN StopPolling ELSE UNCHANGED <<timers, intervalRef>>
    /\ runs' = Finished(r)
    /\ last' = Step("catch", e)
    /\ stopped' = (stopped \/ result.stop)
    /\ UNCHANGED <<mounted, clans, loading, lastUpdated, previousClansMap, timerSeq,
                   effectRan, fetchDataError>>
    /\ UNCHANGED published
    /\ UNCHANGED pureVars

\* Catch as it would be if a failure also discarded the published Snapshot.
CatchDiscardingSnapshot(r, e) ==
    LET result == CatchResult(e) IN
    /\ error' = SetState(error, result.error)
    /\ IF result.stop THEN StopPolling ELSE UNCHANGED <<timers, intervalRef>>
    /\ loading' = SetState(loading, FALSE)
    /\ clans' = SetState(clans, <<>>)
    /\ runs' = Finished(r)
    /\ last' = Step("catch", e)
    /\ stopped' = (stopped \/ result.stop)
    /\ UNCHANGED <<mounted, lastUpdated, previousClansMap, timerSeq,
                   effectRan, fetchDataError>>
    /\ UNCHANGED published
    /\ UNCHANGED pureVars

\* The catch and finally blocks (lines 187-203) for the thrown value e.
Catch(r, e) ==
    LET result == CatchResult(e) IN
    /\ error' = SetState(error, result.error)
    /\ IF result.stop THEN StopPolling ELSE UNCHANGED <<timers, intervalRef>>
    /\ loading' = SetState(loading, FALSE)
    /\ runs' = Finished(r)
    /\ last' = Step("catch", e)
    /\ stopped' = (stopped \/ result.stop)
    /\ UNCHANGED <<mounted, clans, lastUpdated, previousClansMap, timerSeq,
                   effectRan, fetchDataError>>
    /\ UNCHANGED published
    /\ UNCHANGED pureVars

\* Publish as it would be if the reference map were built from the parsed
\* array instead of the de-duplicated one.
PublishRawReference(r, newClansData, now) ==
    LET uniqueClans == UniqueClans(newClansData)
        trackedClans == TrackedClans(uniqueClans, previousClansMap)
        sortedData == SortByScore(trackedClans)
    IN  /\ error' = IF runs[r].error THEN SetState(error, NULL) ELSE error
        /\ clans' = SetState(clans, sortedData)
        /\ previousClansMap' = MapOf(newClansData)
        /\ lastUpdated' = SetState(lastUpdated, now)
        /\ loading' = SetState(loading, FALSE)
        /\ runs' = Finished(r)
        /\ last' = Step("publish", NothingThrown)
        /\ UNCHANGED <<mounted, intervalRef, timers, timerSeq, effectRan,
                       fetchDataError, stopped>>
        /\ published' = SetState(published,
                                  [run |-> r, size |-> Len(newClansData)])
        /\ UNCHANGED pureVars

\* Lines 159-186 and the finally block, for the parsed array newClansData,
\* at clock reading now.
Publish(r, newClansData, now) ==
    LET uniqueClans == UniqueClans(newClansData)
        trackedClans == TrackedClans(uniqueClans, previousClansMap)
        sortedData == SortByScore(trackedClans)
    IN  /\ error' = IF runs[r].error THEN SetState(error, NULL) ELSE error
        /\ clans' = SetState(clans, sortedData)
        /\ previousClansMap' = MapOf(uniqueClans)
        /\ lastUpdated' = SetState(lastUpdated, now)
        /\ loading' = SetState(loading, FALSE)
        /\ runs' = Finished(r)
        /\ last' = Step("publish", NothingThrown)
        /\ UNCHANGED <<mounted, intervalRef, timers, timerSeq, effectRan,
                       fetchDataError, stopped>>
        /\ published' = SetState(published,
                                  [run |-> r, size |-> Len(newClansData)])
        /\ UNCHANGED pureVars

\* await fetch(...) and await response.text() settle (lines 114-118).  The
\* two awaits are one position of the run: nothing of the component is read
\* or written between them.
FetchOk(r) ==
    /\ InFlight(r) /\ runs[r].pc = "fetch"
    /\ Advance(r, "extract")

FetchNotOk(r, status) ==
    /\ InFlight(r) /\ runs[r].pc = "fetch"
    /\ Catch(r, ErrorValue(NotOkPrefix \o NumberToString(status)))

FetchReject(r, e) ==
    /\ InFlight(r) /\ runs[r].pc = "fetch"
    /\ Catch(r, e)

\* What lines 152-161 throw for the model's text, if anything.
ParseThrows(text) ==
    CASE text.kind = "empty" -> ErrorValue(EmptyResponseText)
      [] text.kind = "malformed" -> ErrorValue(SyntaxErrorText)
      [] text.kind = "nonarray" -> ErrorValue(NotIterableText)
      [] OTHER -> NothingThrown

\* await ai.models.generateContent(...) resolves; the rest of the try block
\* runs without another await (lines 152-186).
ExtractResolve(r, text, now) ==
    /\ InFlight(r) /\ runs[r].pc = "extract"
    /\ lastUpdated <= now
    /\ IF text.kind = "array"
       THEN Publish(r, text.data, now)
       ELSE Catch(r, ParseThrows(text))

ExtractReject(r, e) ==
    /\ InFlight(r) /\ runs[r].pc = "extract"
    /\ Catch(r, e)

\* Unmount as it would be if the effect returned no cleanup.
UnmountWithoutCleanup ==
    /\ mounted /\ effectRan
    /\ mounted' = FALSE
    /\ last' = Step("unmount", NothingThrown)
    /\ UNCHANGED <<clans, loading, error, lastUpdated, previousClansMap, timerSeq,
                   effectRan, fetchDataError, runs, stopped, intervalRef, timers>>
    /\ UNCHANGED published
    /\ UNCHANGED pureVars

\* The component unmounts: the effect's cleanup calls stopPolling (line 210).
Unmount ==
    /\ mounted /\ effectRan
    /\ mounted' = FALSE
    /\ StopPolling
    /\ last' = Step("unmount", NothingThrown)
    /\ UNCHANGED <<clans, loading, error, lastUpdated, previousClansMap, timerSeq,
                   effectRan, fetchDataError, runs, stopped>>
    /\ UNCHANGED published
    /\ UNCHANGED pureVars

Next ==
    \/ Effect
    \/ \E t \in timers : Tick(t)
    \/ \E r \in 1..Len(runs) : FetchOk(r)
    \/ \E r \in 1..Len(runs), s \in NotOkStatuses : FetchNotOk(r, s)
    \/ \E r \in 1..Len(runs), e \in FetchRejections : FetchReject(r, e)
    \/ \E r \in 1..Len(runs), text \in ModelTexts, now \in Times :
          ExtractResolve(r, text, now)
    \/ \E r \in 1..Len(runs), e \in ExtractRejections : ExtractReject(r, e)
    \/ Unmount

Spec == Init /\ [][Next]_vars

\* A live interval timer keeps firing, and React runs an effect whose
\* dependencies have changed.
FairSpec ==
    /\ Spec
    /\ WF_vars(Effect)
    /\ WF_vars(\E t \in timers : Tick(t))

(* ------------------- the pure stages on bounded inputs ---------------- *)
PureClans == { Clan(n, s) : n \in PureNames, s \in Scores }

\* Failure messages in several spellings, with and without the substrings.
Messages ==
    { NotOkPrefix \o NumberToString(500), FailedToFetchText, EmptyResponseText,
      SyntaxErrorText, NotIterableText, UnknownErrorText, QuotaRejectText,
      KeyRejectText, BothRejectText, QuotaSubstring, ApiKeySubstring,
      ToLowerCase(BothRejectText), ApiKeySubstring \o QuotaSubstring,
      <<"Q","U","O","T","A">>, <<"q","u","o","t","e">>, <<"q","u","o","t">>,
      <<"q","u","o"," ","t","a">>, <<"A","p","i"," ","K","E","Y"," ","n","o","t">>,
      <<"a","p","i","-","k","e","y"," ","n","o","t"," ","v","a","l","i","d">>,
      <<>> }

ThrownValues ==
    { ErrorValue(m) : m \in Messages } \cup { NonErrorValue(m) : m \in Messages }

\* The de-duplicated arrays and the reference maps made from them.
PureUnique == { UniqueFrom(a, <<>>) : a \in SeqsUpTo(PureClans, MaxPureLen) }
PureReferences == { MapOf(u) : u \in PureUnique }

PureInit ==
    /\ AppInit
    /\ pOut = <<>>
    /\ \/ pStage = "array" /\ pIn \in SeqsUpTo(PureClans, MaxPureLen)
       \/ pStage = "thrown" /\ pIn \in ThrownValues
       \/ /\ pStage = "pair"
          /\ pIn \in [uniqueClans : PureUnique, previous : PureReferences]

\* The de-duplication of lines 159-166 applied to pIn.
Dedupe ==
    /\ pStage = "array"
    /\ pOut' = UniqueClans(pIn)
    /\ pStage' = "unique"
    /\ UNCHANGED <<pIn>>
    /\ UNCHANGED appVars

\* The classification of lines 189-200 applied to pIn.
Classify ==
    /\ pStage = "thrown"
    /\ pOut' = CatchResult(pIn)
    /\ pStage' = "classified"
    /\ UNCHANGED <<pIn>>
    /\ UNCHANGED appVars

\* The delta calculation of lines 169-174 applied to pIn.
Track ==
    /\ pStage = "pair"
    /\ pOut' = TrackedClans(pIn.uniqueClans, pIn.previous)
    /\ pStage' = "tracked"
    /\ UNCHANGED <<pIn>>
    /\ UNCHANGED appVars

\* The sort of line 177 applied to the tracked records.
Sort ==
    /\ pStage = "tracked"
    /\ pIn' = pOut
    /\ pOut' = SortByScore(pOut)
    /\ pStage' = "sorted"
    /\ UNCHANGED appVars

PureNext == Dedupe \/ Classify \/ Track \/ Sort

PureSpec == PureInit /\ [][PureNext]_vars

(* ------------------------------- claims ------------------------------- *)
\* Letters a and b are the same up to case.
SameLetter(a, b) ==
    a = b \/ \E k \in 1..26 : {a, b} = {UpperCase[k], LowerCase[k]}

\* sub occurs in text when the case of letters is ignored.
ContainsIgnoringCase(text, sub) ==
    \E off \in 0..(Len(text) - Len(sub)) :
        \A j \in 1..Len(sub) : SameLetter(text[off + j], sub[j])

\* The message the failure of a thrown value is classified by.
FailureText(e) == IF e.isError THEN e.message ELSE UnknownErrorText

\* The failure is a quota or credential failure.
IsTerminalFailure(e) ==
    \/ ContainsIgnoringCase(FailureText(e), QuotaSubstring)
    \/ ContainsIgnoringCase(FailureText(e), ApiKeySubstring)

\* C1: once a run has failed with a quota or credential message, the
\* scheduler is stopped for good: no step after it starts a pipeline run or
\* leaves an interval timer live.
C1_TerminalFailureStopsScheduler ==
    [][stopped => (Len(runs') = Len(runs) /\ timers' = {})]_vars

\* The extraction service returns the empty array to run r.
ExtractsEmptyArray ==
    \E r \in 1..Len(runs), now \in Times :
        ExtractResolve(r, [kind |-> "array", data |-> <<>>], now)

\* C2: a run whose extraction returns [] fails: it sets an error message
\* and leaves the published Snapshot and the reference map as they were.
C2_EmptyArrayIsExtractionFailure ==
    [][(mounted /\ clans # <<>> /\ ExtractsEmptyArray)
          => (/\ Truthy(error')
              /\ clans' = clans
              /\ previousClansMap' = previousClansMap)]_vars

\* C3: a failed run changes the error message, the in-progress flag and the
\* timer at most: the published Snapshot, the reference map and the
\* last-updated timestamp are what they were before the run failed.
C3_FailurePreservesSnapshot ==
    [][last'.op = "catch"
          => (/\ clans' = clans
              /\ previousClansMap' = previousClansMap
              /\ lastUpdated' = lastUpdated
              /\ mounted' = mounted
              /\ Len(runs') = Len(runs)
              /\ timers' \subseteq timers)]_vars

\* A run has failed after a Snapshot was published, with another run still
\* in flight.
C3_Witness ==
    /\ mounted
    /\ last.op = "catch"
    /\ clans # <<>>
    /\ lastUpdated # 0
    /\ \E r \in 1..Len(runs) : InFlight(r)

\* C4: whenever an error message is set and the published Snapshot is not
\* empty, the view presented is the ranked leaderboard.
C4_SnapshotStaysVisible ==
    (mounted /\ Truthy(error) /\ clans # <<>>) => View = "Leaderboard"

\* C5: after every successful run completes, the error message is null.
C5_SuccessClearsError ==
    (mounted /\ last.op = "publish") => error = NULL

\* The name -> score pairs of the published Snapshot and of the reference.
SnapshotPairs == { <<clans[i].name, clans[i].score>> : i \in 1..Len(clans) }
ReferencePairs ==
    { <<n, previousClansMap[n].score>> : n \in DOMAIN previousClansMap }

\* The change of record c against the Snapshot snapshot: the score
\* difference for a name the Snapshot holds, 0 for any other.
ChangeAgainst(c, snapshot) ==
    IF \E j \in 1..Len(snapshot) : snapshot[j].name = c.name
    THEN c.score
           - snapshot[CHOOSE j \in 1..Len(snapshot) : snapshot[j].name = c.name].score
    ELSE 0

\* C6: while the component is mounted the reference map holds exactly the
\* name -> score pairs of the published Snapshot; only a publishing step
\* changes it; and every pointChange a step publishes is the change against
\* the Snapshot published just before it.
C6_ReferenceMatchesSnapshot ==
    /\ [](mounted => ReferencePairs = SnapshotPairs)
    /\ [][previousClansMap' # previousClansMap => last'.op = "publish"]_vars
    /\ [][(mounted /\ last'.op = "publish")
             => \A i \in 1..Len(clans') :
                   clans'[i].pointChange = ChangeAgainst(clans'[i], clans)]_vars

\* A run that overlapped another has published a Snapshot with a non-zero
\* change against the Snapshot before it.
C6_Witness ==
    /\ mounted
    /\ last.op = "publish"
    /\ \E i \in 1..Len(clans) : clans[i].pointChange # 0
    /\ \E r \in 1..Len(runs) : InFlight(r)

\* C8: once the component is unmounted no interval timer is live and no
\* pipeline run is started; unmounting leaves the runs in flight as they are.
C8_UnmountStopsScheduler ==
    /\ [](~mounted => (timers = {} /\ intervalRef = 0))
    /\ [][~mounted => Len(runs') = Len(runs)]_vars
    /\ [][last'.op = "unmount" => runs' = runs]_vars

\* A run that was in flight at unmount has since failed with a quota or
\* credential message.
C8_Witness ==
    /\ ~mounted
    /\ last.op = "catch"
    /\ IsTerminalFailure(last.thrown)

\* C9: a failure whose message contains "quota", in any case, gets the quota
\* message and stops polling; otherwise one whose message contains
\* "api key not valid" gets the credential message and stops polling;
\* otherwise it gets the generic message with the original text and does
\* not stop polling.  A thrown value that is not an Error is generic.
C9_FailureClassification ==
    pStage = "classified" =>
        LET text == FailureText(pIn)
            hasQuota == ContainsIgnoringCase(text, QuotaSubstring)
            hasKey == ContainsIgnoringCase(text, ApiKeySubstring)
        IN  /\ hasQuota => pOut = [error |-> QuotaErrorText, stop |-> TRUE]
            /\ (hasKey /\ ~hasQuota)
                 => pOut = [error |-> ApiKeyErrorText, stop |-> TRUE]
            /\ (~hasKey /\ ~hasQuota)
                 => /\ ~pOut.stop
                    /\ pOut.error.literal = "Failed to process data with AI: "
                    /\ pOut.error.message = text
            /\ ~pIn.isError => (~pOut.stop /\ pOut.error.message = UnknownErrorText)

\* A message with both substrings, in mixed case, has been classified.
C9_Witness ==
    /\ pStage = "classified"
    /\ pIn = ErrorValue(BothRejectText)
    /\ pOut.stop

\* The position of the first record of pIn with the given name.
FirstIndex(name) ==
    CHOOSE i \in 1..Len(pIn) :
        /\ pIn[i].name = name
        /\ \A j \in 1..(i - 1) : pIn[j].name # name

\* C10: the de-duplicated output has exactly one record for each name of
\* the input, that record is the first of the name in the input, and the
\* output is in the order of those first occurrences; the empty input gives
\* the empty output.
C10_DedupeKeepsFirst ==
    pStage = "unique" =>
        /\ { pOut[k].name : k \in 1..Len(pOut) } = { pIn[i].name : i \in 1..Len(pIn) }
        /\ \A k1, k2 \in 1..Len(pOut) : k1 # k2 => pOut[k1].name # pOut[k2].name
        /\ \A k \in 1..Len(pOut) : pOut[k] = pIn[FirstIndex(pOut[k].name)]
        /\ \A k1, k2 \in 1..Len(pOut) :
              k1 < k2 => FirstIndex(pOut[k1].name) < FirstIndex(pOut[k2].name)
        /\ pIn = <<>> => pOut = <<>>

\* An input that repeats a name with another score between two other names
\* has been de-duplicated.
C10_Witness ==
    /\ pStage = "unique"
    /\ Len(pIn) = 3 /\ Len(pOut) = 2
    /\ pIn[1].name = pIn[3].name /\ pIn[1].score # pIn[3].score

\* A run has just failed with a message that is neither a quota nor a
\* credential message.
GenericFailureJustHandled ==
    last.op = "catch" /\ ~IsTerminalFailure(last.thrown)

\* A pipeline run has just been started.
RunJustStarted == last.op \in {"mount", "effect", "tick"}

\* C7 as claimed: after a run has failed with a non-terminal error in a
\* mounted component, polling goes on: an interval timer is live, or the
\* effect is about to run again and install one, so that another run starts.
C7_GenericFailureKeepsPolling ==
    (mounted /\ GenericFailureJustHandled)
        => (timers # {} \/ error # fetchDataError)

\* C7 as amended: a non-terminal failure leaves the interval timer and
\* intervalRef as they were, and if a timer is live after it then, unless the
\* component unmounts or the timer is cleared, another run starts.
C7_GenericFailureLeavesTimer ==
    /\ [][(last'.op = "catch" /\ ~IsTerminalFailure(last'.thrown))
             => (timers' = timers /\ intervalRef' = intervalRef)]_vars
    /\ (mounted /\ GenericFailureJustHandled /\ timers # {})
          ~> (RunJustStarted \/ ~mounted \/ timers = {} \/ Len(runs) = MaxRuns)

\* A run has failed with a non-terminal error while the timer is live and
\* further runs can start.
C7_Witness ==
    /\ mounted
    /\ GenericFailureJustHandled
    /\ timers # {}
    /\ Len(runs) < MaxRuns

\* C11: each tracked record has the name and score of the de-duplicated
\* record at its position and nothing else but pointChange, which is the
\* score minus the previous score when the reference has the name, whatever
\* that previous score is, and 0 when it has not, whatever the score is.
C11_DeltaCalculation ==
    pStage = "tracked" =>
        /\ Len(pOut) = Len(pIn.uniqueClans)
        /\ \A i \in 1..Len(pOut) :
              LET current == pIn.uniqueClans[i]
                  known == current.name \in DOMAIN pIn.previous
              IN  /\ DOMAIN pOut[i] = {"name", "score", "pointChange"}
                  /\ pOut[i].name = current.name
                  /\ pOut[i].score = current.score
                  /\ known => pOut[i].pointChange
                                 = current.score - pIn.previous[current.name].score
                  /\ ~known => pOut[i].pointChange = 0

\* The delta has been calculated for a record whose previous score is 0 and
\* for a record with a non-zero score the reference does not have.
C11_Witness ==
    /\ pStage = "tracked"
    /\ \E i \in 1..Len(pOut) :
          /\ pOut[i].name \in DOMAIN pIn.previous
          /\ pIn.previous[pOut[i].name].score = 0
          /\ pOut[i].pointChange = 1
    /\ \E i \in 1..Len(pOut) :
          /\ pOut[i].name \notin DOMAIN pIn.previous
          /\ pOut[i].score = 1
          /\ pOut[i].pointChange = 0

\* The records of a sequence that have the given score, in order.
WithScore(records, v) ==
    LET Has(x) == x.score = v IN SelectSeq(records, Has)

\* The number of positions of a sequence that hold the record x.
Occurrences(records, x) ==
    Cardinality({ i \in 1..Len(records) : records[i] = x })

\* C12: the sorted list is a permutation of the tracked list, its scores
\* never increase from one position to the next, and the records of any
\* one score are in the order the tracked list had them.
C12_RankingStableDescending ==
    pStage = "sorted" =>
        /\ Len(pOut) = Len(pIn)
        /\ \A i \in 1..Len(pIn) :
              Occurrences(pOut, pIn[i]) = Occurrences(pIn, pIn[i])
        /\ \A k \in 1..(Len(pOut) - 1) : pOut[k].score >= pOut[k + 1].score
        /\ \A v \in Scores : WithScore(pOut, v) = WithScore(pIn, v)

\* A list whose first record has the lowest score and whose other two tie
\* has been sorted.
C12_Witness ==
    /\ pStage = "sorted"
    /\ Len(pIn) = 3
    /\ pIn[1].score < pIn[2].score
    /\ pIn[2].score = pIn[3].score
    /\ pOut = <<pIn[2], pIn[3], pIn[1]>>

\* C13: in every state the published Snapshot has no two records with the
\* same name.
C13_SnapshotNamesUnique ==
    \A i, j \in 1..Len(clans) : i # j => clans[i].name # clans[j].name

\* The published Snapshot came from an array in which a name was repeated.
C13_Witness ==
    /\ mounted
    /\ last.op = "publish"
    /\ Len(clans) >= 1
    /\ published.size > Len(clans)

\* C14: a step that starts a pipeline run or installs an interval timer is
\* the mount of the component or the firing of the interval timer.
C14_OnlyMountAndTimerStartRuns ==
    [][(Len(runs') > Len(runs) \/ ~(timers' \subseteq timers))
          => last'.op \in {"mount", "tick"}]_vars

\* C15: at most one interval timer is live, intervalRef holds its id, and
\* intervalRef is null when none is live; a quota or credential failure
\* and the unmount leave no timer live.
C15_SingleLiveTimer ==
    /\ [](/\ Cardinality(timers) <= 1
          /\ \A t \in timers : t.id = intervalRef
          /\ timers = {} => intervalRef = 0)
    /\ [][(\/ last'.op = "unmount"
           \/ last'.op = "catch" /\ IsTerminalFailure(last'.thrown))
             => timers' = {}]_vars

\* The effect has run again while the timer of the mount was live, and has
\* installed the second timer.
C15_Witness ==
    /\ last.op = "effect"
    /\ ~stopped
    /\ timerSeq = 2
    /\ intervalRef = 2
    /\ timers # {}

\* C16: while a timer is live it can fire whether or not a run is in
\* flight, and its firing starts a new run at the fetch and leaves every
\* earlier run where it was.
C16_OverlapNotPrevented ==
    /\ [](\A t \in timers : Len(runs) < MaxRuns => ENABLED Tick(t))
    /\ [][last'.op = "tick"
             => (/\ Len(runs') = Len(runs) + 1
                 /\ runs'[Len(runs')].pc = "fetch"
                 /\ \A r \in 1..Len(runs) : runs'[r] = runs[r])]_vars

\* The timer has fired while an earlier run was awaiting the extraction:
\* two runs are in flight.
C16_Witness ==
    /\ last.op = "tick"
    /\ \E r1, r2 \in 1..Len(runs) :
          /\ r1 < r2
          /\ runs[r1].pc = "extract"
          /\ runs[r2].pc = "fetch"

\* C17: the published Snapshot is replaced only by the result of a run that
\* started later than the run that produced it.
C17_PublishedInStartOrder ==
    [][published' # published => published'.run > published.run]_vars

\* C18: the in-progress flag is true whenever a pipeline run is in flight.
C18_LoadingWhileInFlight ==
    (mounted /\ \E r \in 1..Len(runs) : InFlight(r)) => loading

\* C19: while the component is mounted, a step that ends a run, by a
\* publication or by any failure, leaves the in-progress flag false, and
\* the flag is false whenever runs have started and none is in flight.
C19_LoadingClearedAtEnd ==
    /\ [][(mounted /\ last'.op \in {"publish", "catch"}) => ~loading']_vars
    /\ []((/\ mounted
           /\ Len(runs) > 0
           /\ \A r \in 1..Len(runs) : ~InFlight(r)) => ~loading)

\* After a publication a later run has failed with a quota or credential
\* message, and no run is in flight.
C19_Witness ==
    /\ mounted
    /\ lastUpdated # 0
    /\ last.op = "catch"
    /\ IsTerminalFailure(last.thrown)
    /\ Len(runs) >= 2
    /\ \A r \in 1..Len(runs) : ~InFlight(r)

====
